---- MODULE Spec2Model ----
(***************************************************************************)
(* A model of cbuild: the path/URL codec, the normalize interceptor that   *)
(* build() installs on the systemjs-builder loader, findPackage, the       *)
(* configuration writer and makeTree.                                      *)
(*                                                                         *)
(* Paths, URLs and module names are sequences of one-character strings,    *)
(* so that the regular expressions of the source act on characters.        *)
(* Emitted text is a sequence of pieces: literal chunks and characters.    *)
(***************************************************************************)
EXTENDS Integers, Sequences, FiniteSets, TLC

VARIABLES
    \* ---- codec (url2path, path2url) ----
    cPc, cSep, cPath, cUrl, cBack,
    \* ---- makeTree ----
    tPc, result, entryPoints, found, kids, queue, shifted,
    \* ---- build ----
    phase,          \* where the promise chain of build stands
    hook,           \* builder.loader.normalize: "new" while replaced
    options,        \* the BuildOptions
    withExtension,  \* whether the loader appends .js (defaultJSExtensions)
    fsys,           \* the paths fs.stat finds
    loaderMap,      \* builder.loader.map
    resolved,       \* what browser-resolve has answered, per name and directory
    frames,         \* the calls of the replaced normalize, in call order
    called,         \* how many of them the bundler made itself
    mapState,       \* the findPackage calls of Promise.map, per list index
    repoTbl, fixTbl,
    config,         \* what writeConfig wrote
    \* The tables on their own:
    stores,         \* the findPackage calls that stored, with the table each left
    mapBase         \* repoTbl as it was when Promise.map was called

codecVars == <<cPc, cSep, cPath, cUrl, cBack>>

treeVars == <<tPc, result, entryPoints, found, kids, queue, shifted>>

worldVars == <<options, withExtension, fsys, loaderMap>>

buildVars == <<phase, hook, worldVars, resolved, frames, called, mapState,
               repoTbl, fixTbl, config>>

tableVars == <<stores, mapBase>>

vars == <<codecVars, treeVars, buildVars, tableVars>>

(***************************************************************************)
(* Characters and small string helpers                                     *)
(***************************************************************************)

\* The character class [0-9A-Za-z] of the two drive-letter patterns.
Alnum ==
    { "0","1","2","3","4","5","6","7","8","9",
      "A","B","C","D","E","F","G","H","I","J","K","L","M",
      "N","O","P","Q","R","S","T","U","V","W","X","Y","Z",
      "a","b","c","d","e","f","g","h","i","j","k","l","m",
      "n","o","p","q","r","s","t","u","v","w","x","y","z" }

\* The value of an unset JavaScript variable.
Undefined == <<"<undefined>">>

FileScheme == <<"f","i","l","e",":","/","/">>

StartsWith(s, pre) ==
    /\ Len(s) >= Len(pre)
    /\ SubSeq(s, 1, Len(pre)) = pre

EndsWith(s, suf) ==
    /\ Len(s) >= Len(suf)
    /\ SubSeq(s, Len(s) - Len(suf) + 1, Len(s)) = suf

Drop(s, n) == SubSeq(s, n + 1, Len(s))

\* String.prototype.replace(/c/g, d) for single characters.
ReplaceAll(s, c, d) == [i \in 1..Len(s) |-> IF s[i] = c THEN d ELSE s[i]]

\* s matches [0-9A-Za-z]+:\/ from position from (1-based).
DriveAt(s, from) ==
    \E k \in from..Len(s) :
        /\ \A i \in from..k : s[i] \in Alnum
        /\ k + 2 <= Len(s)
        /\ s[k + 1] = ":"
        /\ s[k + 2] = "/"

(***************************************************************************)
(* JavaScript objects and arrays                                           *)
(***************************************************************************)

\* An object used as a table is a sequence of <<key, value>> pairs in
\* insertion order: Object.keys returns string keys in that order.
EmptyObject == <<>>

ObjectKeys(obj) == [i \in 1..Len(obj) |-> obj[i][1]]

Has(obj, key) == \E i \in 1..Len(obj) : obj[i][1] = key

Get(obj, key) == obj[CHOOSE i \in 1..Len(obj) : obj[i][1] = key][2]

\* A plausible slip: the entries are pushed to a list, not stored by key.
Put_push(obj, key, value) == Append(obj, <<key, value>>)

\* obj[key] = value: an existing key keeps its place.
Put(obj, key, value) ==
    IF Has(obj, key)
    THEN [i \in 1..Len(obj) |-> IF obj[i][1] = key THEN <<key, value>> ELSE obj[i]]
    ELSE Append(obj, <<key, value>>)

\* The UTF-16 code units of the characters the model uses.
CodeUnit ==
    "-" :> 45 @@ "." :> 46 @@ "/" :> 47 @@ "0" :> 48 @@ "1" :> 49 @@ "2" :> 50 @@
    "3" :> 51 @@ "4" :> 52 @@ "5" :> 53 @@ "6" :> 54 @@ "7" :> 55 @@ "8" :> 56 @@
    "9" :> 57 @@ ":" :> 58 @@ "A" :> 65 @@ "B" :> 66 @@ "C" :> 67 @@ "D" :> 68 @@
    "E" :> 69 @@ "F" :> 70 @@ "G" :> 71 @@ "H" :> 72 @@ "I" :> 73 @@ "J" :> 74 @@
    "K" :> 75 @@ "L" :> 76 @@ "M" :> 77 @@ "N" :> 78 @@ "O" :> 79 @@ "P" :> 80 @@
    "Q" :> 81 @@ "R" :> 82 @@ "S" :> 83 @@ "T" :> 84 @@ "U" :> 85 @@ "V" :> 86 @@
    "W" :> 87 @@ "X" :> 88 @@ "Y" :> 89 @@ "Z" :> 90 @@ "\\" :> 92 @@ "_" :> 95 @@
    "a" :> 97 @@ "b" :> 98 @@ "c" :> 99 @@ "d" :> 100 @@ "e" :> 101 @@ "f" :> 102 @@
    "g" :> 103 @@ "h" :> 104 @@ "i" :> 105 @@ "j" :> 106 @@ "k" :> 107 @@ "l" :> 108 @@
    "m" :> 109 @@ "n" :> 110 @@ "o" :> 111 @@ "p" :> 112 @@ "q" :> 113 @@ "r" :> 114 @@
    "s" :> 115 @@ "t" :> 116 @@ "u" :> 117 @@ "v" :> 118 @@ "w" :> 119 @@ "x" :> 120 @@
    "y" :> 121 @@ "z" :> 122 @@ "*" :> 42

\* a < b for strings, as Array.prototype.sort compares them by default.
RECURSIVE StringLess(_, _)
StringLess(a, b) ==
    IF b = <<>> THEN FALSE
    ELSE IF a = <<>> THEN TRUE
    ELSE IF Head(a) # Head(b) THEN CodeUnit[Head(a)] < CodeUnit[Head(b)]
    ELSE StringLess(Tail(a), Tail(b))

\* Array.prototype.sort() on a list of distinct strings.
sort(list) == SortSeq(list, StringLess)

\* Array.prototype.join: the items are piece sequences, sep is one piece.
RECURSIVE join(_, _)
join(list, sep) ==
    IF list = <<>> THEN <<>>
    ELSE IF Len(list) = 1 THEN list[1]
    ELSE list[1] \o <<sep>> \o join(Tail(list), sep)

RECURSIVE Flatten(_)
Flatten(list) == IF list = <<>> THEN <<>> ELSE Head(list) \o Flatten(Tail(list))

(***************************************************************************)
(* Node's path module on POSIX, for absolute normalized paths              *)
(***************************************************************************)

\* The segments of a path: "/b/x.js" gives <<"b", "x.js">> as strings.
RECURSIVE Segments(_, _)
Segments(path, current) ==
    IF path = <<>> THEN (IF current = <<>> THEN <<>> ELSE <<current>>)
    ELSE IF Head(path) = "/"
         THEN (IF current = <<>> THEN <<>> ELSE <<current>>) \o Segments(Tail(path), <<>>)
         ELSE Segments(Tail(path), Append(current, Head(path)))

RECURSIVE CommonPrefixLen(_, _)
CommonPrefixLen(a, b) ==
    IF a = <<>> \/ b = <<>> \/ Head(a) # Head(b) THEN 0
    ELSE 1 + CommonPrefixLen(Tail(a), Tail(b))

\* path.relative(from, to)
relative(from, to) ==
    LET f == Segments(from, <<>>)
        t == Segments(to, <<>>)
        c == CommonPrefixLen(f, t)
        ups == [i \in 1..(Len(f) - c) |-> <<".", ".">>]
    IN  join(ups \o SubSeq(t, c + 1, Len(t)), "/")

\* path.dirname(path)
dirname(path) ==
    LET segs == Segments(path, <<>>)
    IN  IF Len(segs) <= 1 THEN <<"/">>
        ELSE <<"/">> \o join(SubSeq(segs, 1, Len(segs) - 1), "/")

\* path.resolve(dir, file), file a relative name
resolvePath(dir, file) == dir \o <<"/">> \o file

(***************************************************************************)
(* Path/URL codec                                                          *)
(***************************************************************************)

\* A plausible slip: the slash in front of the drive letter is kept.
url2path_keepSlash(sep, urlPath) ==
    LET stripped == IF StartsWith(urlPath, FileScheme)
                    THEN Drop(urlPath, Len(FileScheme)) ELSE urlPath
    IN  IF sep # "/" THEN ReplaceAll(stripped, "/", sep) ELSE stripped

url2path(sep, urlPath) ==
    LET stripped == IF StartsWith(urlPath, FileScheme)
                    THEN Drop(urlPath, Len(FileScheme)) ELSE urlPath
        undriven == IF Len(stripped) > 0 /\ stripped[1] = "/" /\ DriveAt(stripped, 2)
                    THEN Tail(stripped) ELSE stripped
    IN  IF sep # "/" THEN ReplaceAll(undriven, "/", sep) ELSE stripped

path2url(sep, nativePath) ==
    LET slashed == ReplaceAll(nativePath, sep, "/")
        driven  == IF DriveAt(slashed, 1) THEN <<"/">> \o slashed ELSE slashed
        urlPath == IF sep # "/" THEN driven ELSE nativePath
    IN  IF Len(urlPath) > 0 /\ urlPath[1] = "/"
        THEN <<"f","i","l","e",":","/","/","/">> \o Tail(urlPath)
        ELSE urlPath

(***************************************************************************)
(* findPackage: the package table kept per top node_modules directory      *)
(***************************************************************************)

\* path.sep where the build runs.
PathSep == "/"

\* build's basePath.
BasePath == <<"/","b">>

NodeModules == <<"n","o","d","e","_","m","o","d","u","l","e","s">>

LowerCase ==
    "A" :> "a" @@ "B" :> "b" @@ "C" :> "c" @@ "D" :> "d" @@ "E" :> "e" @@ "F" :> "f" @@ "G" :> "g" @@
    "H" :> "h" @@ "I" :> "i" @@ "J" :> "j" @@ "K" :> "k" @@ "L" :> "l" @@ "M" :> "m" @@ "N" :> "n" @@
    "O" :> "o" @@ "P" :> "p" @@ "Q" :> "q" @@ "R" :> "r" @@ "S" :> "s" @@ "T" :> "t" @@ "U" :> "u" @@
    "V" :> "v" @@ "W" :> "w" @@ "X" :> "x" @@ "Y" :> "y" @@ "Z" :> "z"

\* Character equality under the regular expression flag i.
SameIgnoringCase(c, d) ==
    (IF c \in DOMAIN LowerCase THEN LowerCase[c] ELSE c)
        = (IF d \in DOMAIN LowerCase THEN LowerCase[d] ELSE d)

\* Where /((\/|^)node_modules)\/.*/i can match in s: node_modules starts at
\* j, after a slash or at the start of s, and a slash follows it.
ContainerStarts(s) ==
    { j \in 1..Len(s) :
        /\ j = 1 \/ s[j - 1] = "/"
        /\ j + Len(NodeModules) <= Len(s)
        /\ \A k \in 1..Len(NodeModules) : SameIgnoringCase(s[j + k - 1], NodeModules[k])
        /\ s[j + Len(NodeModules)] = "/" }

\* A plausible slip: a greedy pattern cuts at the last node_modules.
RepoPathOf_last(rootPath) ==
    LET starts == ContainerStarts(rootPath)
    IN  IF starts = {} THEN rootPath
        ELSE LET j == CHOOSE a \in starts : \A b \in starts : b <= a
             IN  SubSeq(rootPath, 1, j + Len(NodeModules) - 1)

\* spec.rootPath.replace(/((\/|^)node_modules)\/.*/i, '$1'): the leftmost
\* match is replaced by its node_modules, which cuts all that follows.
RepoPathOf(rootPath) ==
    LET starts == ContainerStarts(rootPath)
    IN  IF starts = {} THEN rootPath
        ELSE LET j == CHOOSE a \in starts : \A b \in starts : a <= b
             IN  SubSeq(rootPath, 1, j + Len(NodeModules) - 1)

\* A plausible slip: rootPath is the package's directory whatever its name.
PackageSpecOf_rootDir(name, res) ==
    [ entryPath |-> IF res.rootName = name
                    THEN path2url(PathSep, relative(res.rootPath, res.pathName))
                    ELSE Undefined,
      rootPath  |-> path2url(PathSep, relative(BasePath, res.rootPath)) ]

\* The PackageSpec of a resolution: res.pathName is the resolved file,
\* res.rootName and res.rootPath are what packageFilter saw last.
PackageSpecOf(name, res) ==
    IF res.rootName = name
    THEN [ entryPath |-> path2url(PathSep, relative(res.rootPath, res.pathName)),
           rootPath  |-> path2url(PathSep, relative(BasePath, res.rootPath)) ]
    ELSE [ entryPath |-> Undefined,
           rootPath  |-> path2url(PathSep, relative(BasePath, res.pathName)) ]

\* A plausible slip: the repository's table is made anew on every call.
RecordPackage_fresh(table, name, spec) ==
    Put(table, RepoPathOf(spec.rootPath), Put(EmptyObject, name, spec))

\* The stores of findPackage: repoTbl[repoPath][name] = spec.
RecordPackage(table, name, spec) ==
    LET repoPath == RepoPathOf(spec.rootPath)
        specTbl  == IF Has(table, repoPath) THEN Get(table, repoPath) ELSE EmptyObject
    IN  Put(table, repoPath, Put(specTbl, name, spec))

\* What findPackage returns: the resolved file relative to basePath.
PackageResult(res) == path2url(PathSep, relative(BasePath, res.pathName))

(***************************************************************************)
(* writeConfig                                                             *)
(***************************************************************************)

\* for(repoPath of Object.keys(repoTbl)) for(packageName of Object.keys(repo))
\*     packageTbl[packageName] = spec
RECURSIVE PutAll(_, _)
PutAll(table, entries) ==
    IF entries = <<>> THEN table
    ELSE PutAll(Put(table, entries[1][1], entries[1][2]), Tail(entries))

RECURSIVE PackageTblOf(_, _)
PackageTblOf(table, repos) ==
    IF repos = <<>> THEN table
    ELSE PackageTblOf(PutAll(table, repos[1][2]), Tail(repos))

MapRow(name, spec) ==
    <<"\t\t\"">> \o name \o <<"\": \"">> \o spec.rootPath \o <<"\"">>

MetaRow(repoPath, shimPath) ==
    <<"\t\t\"">> \o repoPath \o <<"/*\": { globals: { process: \"">>
        \o shimPath \o <<"\" } }">>

FixRow(old, new) ==
    <<"\t\t\t\t\"">> \o old \o <<"\": \"">> \o new \o <<"\"">>

\* entryPath && ...: no row without an entry path, nor for an empty one.
MainRows(name, spec) ==
    IF spec.entryPath = Undefined \/ spec.entryPath = <<>> THEN <<>>
    ELSE << <<"\t\t\"">> \o name \o <<"\": { main: \"">> \o spec.entryPath \o <<"\" }">> >>

\* The text writeConfig writes to options.outConfigPath.
writeConfig(opts, table, fixes, shimPath) ==
    LET packageTbl == PackageTblOf(EmptyObject, table)
        names      == sort(ObjectKeys(packageTbl))
        repoPaths  == sort(ObjectKeys(table))
        fixList    == ObjectKeys(fixes)
        fixRows    == [i \in 1..Len(fixList) |-> FixRow(fixList[i], Get(fixes, fixList[i]))]
        mapSection ==
            <<"\tmap: {\n">>
            \o join([i \in 1..Len(names) |-> MapRow(names[i], Get(packageTbl, names[i]))], ",\n")
            \o <<"\n">> \o <<"\t}">>
        metaSection ==
            join(<< <<"\tmeta: {">>,
                    join([i \in 1..Len(repoPaths) |-> MetaRow(repoPaths[i], shimPath)], ",\n"),
                    <<"\t}">> >>, "\n")
        packagesSection ==
            join(<< <<"\tpackages: {">>,
                    <<"\t\t\".\": {">>,
                    <<"\t\t\tmap: {">>,
                    join(fixRows, ",\n"),
                    <<"\t\t\t}">>,
                    <<"\t\t},">>,
                    join(Flatten([i \in 1..Len(names) |->
                                    MainRows(names[i], Get(packageTbl, names[i]))]), ",\n"),
                    <<"\t}">> >>, "\n")
        fixSection ==
            <<"\tpackages: {\n", "\t\t\".\": {\n", "\t\t\tmap: {\n">>
            \o join(fixRows, ",\n")
            \o <<"\n", "\t\t\t}\n", "\t\t}\n", "\t}">>
        sectionList ==
            <<mapSection, metaSection, packagesSection>>
            \o (IF Len(fixList) > 0 THEN <<fixSection>> ELSE <<>>)
    IN  join(<< <<"// Autogenerated using cbuild">> \o join(opts.includeConfigList, "\n"),
                <<"System.config({">>,
                join(sectionList, ",\n"),
                <<"});">>,
                <<>> >>, "\n")

(***************************************************************************)
(* The world of one build: specifiers, the loader, the file system and     *)
(* the package resolver (browser-resolve)                                  *)
(***************************************************************************)

NX == <<"x">>
NY == <<"y">>
NW == <<"x","a","j","s">>

\* The specifiers the bundler meets.
Names == { NX, NY, NW }

\* The importing modules: none for an entry point, a module of the project,
\* a module of the installed package y.
ParentNames ==
    { Undefined, <<"f","i","l","e",":","/","/","/","b","/","m",".","j","s">>, <<"f","i","l","e",":","/","/","/","b","/","n","o","d","e","_","m","o","d","u","l","e","s","/","y","/","i",".","j","s">> }

\* What the loader's own normalize gives for a name: the name under the
\* base URL, with .js appended when the loader has defaultJSExtensions.
oldNormalize(name, appendJs) ==
    path2url(PathSep, BasePath) \o <<"/">> \o name
        \o (IF appendJs THEN <<".","j","s">> ELSE <<>>)

\* The file systems a build may run on: the files under the base
\* directory, whose directories exist with them.
FileSystems ==
    { {},
      { <<"/","b","/","x",".","j","s">> },
      { <<"/","b","/","x","/","i","n","d","e","x",".","j","s">> },
      { <<"/","b","/","x","/","i","n","d","e","x",".","j","s">>, <<"/","b","/","y",".","j","s">> } }

\* builder.loader.map: unset, or a table from names to names.
NoMap == [ isSet |-> FALSE, table |-> <<>> ]

MapOf(table) == [ isSet |-> TRUE, table |-> table ]

LoaderMaps ==
    { NoMap,
      MapOf(<< <<NX, NY>> >>),
      MapOf(<< <<NX, NY>>, <<NY, NX>> >>),
      MapOf(<< <<NX, NX>> >>) }

\* What browser-resolve can answer for a name: a failure, the name itself
\* (a core module), or a file with the package.json its filter saw last.
ResolveError ==
    [ kind |-> "error", pathName |-> Undefined,
      rootName |-> Undefined, rootPath |-> Undefined ]

\* The answer for a core module: the name itself, packageFilter not called.
CoreModule(name) ==
    [ kind |-> "file", pathName |-> name,
      rootName |-> Undefined, rootPath |-> Undefined ]

Resolutions(name, dir) ==
    { ResolveError, CoreModule(name) }
    \cup
    (IF name = NX THEN
        { [ kind |-> "file", pathName |-> <<"/","b","/","n","o","d","e","_","m","o","d","u","l","e","s","/","x","/","i",".","j","s">>,
            rootName |-> NX, rootPath |-> <<"/","b","/","n","o","d","e","_","m","o","d","u","l","e","s","/","x">> ] }
        \cup
        (IF dir = BasePath THEN
            { [ kind |-> "file", pathName |-> <<"/","n","o","d","e","_","m","o","d","u","l","e","s","/","x","/","i",".","j","s">>,
                rootName |-> NX, rootPath |-> <<"/","n","o","d","e","_","m","o","d","u","l","e","s","/","x">> ],
              [ kind |-> "file", pathName |-> <<"/","b","/","n","o","d","e","_","m","o","d","u","l","e","s","/","z","/","x",".","j","s">>,
                rootName |-> <<"z">>, rootPath |-> <<"/","b","/","n","o","d","e","_","m","o","d","u","l","e","s","/","z">> ] }
         ELSE
            { [ kind |-> "file",
                pathName |-> <<"/","b","/","n","o","d","e","_","m","o","d","u","l","e","s","/","y","/","n","o","d","e","_","m","o","d","u","l","e","s","/","x","/","i",".","j","s">>,
                rootName |-> NX,
                rootPath |-> <<"/","b","/","n","o","d","e","_","m","o","d","u","l","e","s","/","y","/","n","o","d","e","_","m","o","d","u","l","e","s","/","x">> ] })
     ELSE IF name = NY THEN
        { [ kind |-> "file", pathName |-> <<"/","b","/","n","o","d","e","_","m","o","d","u","l","e","s","/","y","/","i",".","j","s">>,
            rootName |-> NY, rootPath |-> <<"/","b","/","n","o","d","e","_","m","o","d","u","l","e","s","/","y">> ] }
     ELSE {})

\* A plausible slip: the test for a core module is left out.
InternalModule_never(name, res) == FALSE

\* if(pathName == name) throw(new Error('Internal module'))
InternalModule(name, res) == res.pathName = name

\* A plausible slip: findPackage files a core module like any package.
FindPackageFails_onlyErrors(name, res) == res.kind = "error"

\* Whether findPackage(name, ...) fails on the resolver's answer.
FindPackageFails(name, res) ==
    res.kind = "error" \/ InternalModule(name, res)

(***************************************************************************)
(* newNormalize and the replaced builder.loader.normalize                  *)
(***************************************************************************)

\* pathName.replace(/.js$/, '/index.js'): the dot of the pattern stands for
\* any character.
IndexNameOf(pathName) ==
    IF Len(pathName) >= 3 /\ EndsWith(pathName, <<"j","s">>)
    THEN SubSeq(pathName, 1, Len(pathName) - 3) \o <<"/","i","n","d","e","x",".","j","s">>
    ELSE pathName

\* The name newNormalize re-normalizes instead of name, if any:
\* builder.loader.map && (other = map[name]) && other != name.
AliasOf(map, name) ==
    IF map.isSet /\ Has(map.table, name) /\ Get(map.table, name) # <<>>
       /\ Get(map.table, name) # name
    THEN Get(map.table, name)
    ELSE Undefined

\* './' + path.relative(basePath, url2path(url))
FixPath(url) == <<".","/">> \o relative(BasePath, url2path(PathSep, url))

\* A plausible slip: the two paths of a fix are stored the other way round.
RecordFix_swapped(fixes, pathName, indexName) ==
    Put(fixes, FixPath(indexName), FixPath(pathName))

\* fixTbl[oldPath] = newPath
RecordFix(fixes, pathName, indexName) ==
    Put(fixes, FixPath(pathName), FixPath(indexName))

\* A plausible slip: a file that exists is still looked up as a package.
StatSucceeds_never(files, url) == FALSE

\* Whether path is a directory: some file lies below it.
IsDirectory(files, path) ==
    \E file \in files :
        /\ Len(file) > Len(path) + 1
        /\ SubSeq(file, 1, Len(path)) = path
        /\ file[Len(path) + 1] = "/"

\* Promise.promisify(fs.stat)(url2path(url)) is fulfilled: fs.stat finds
\* files and directories alike.
StatSucceeds(files, url) ==
    \/ url2path(PathSep, url) \in files
    \/ IsDirectory(files, url2path(PathSep, url))

(***************************************************************************)
(* makeTree: the dependency tree of a build result                         *)
(***************************************************************************)

\* Object.keys(result.tree), in the table's own order.
Keys == <<"A", "B", "C", "D">>

Modules == { Keys[i] : i \in 1..Len(Keys) }

\* The name of the root branch: output = [''].
Root == ""

\* result.entryPoints when the bundler reports none.
NoEntryPoints == <<"<none>">>

\* Every item's depMap: from import specifiers to module names.
DepMap == ("./A" :> "A") @@ ("./B" :> "B") @@ ("./C" :> "C") @@ ("./D" :> "D")

SpecifierOf(m) == CHOOSE s \in DOMAIN DepMap : DepMap[s] = m

RECURSIVE Filter(_, _)
Filter(seq, keep) ==
    IF seq = <<>> THEN <<>>
    ELSE (IF Head(seq) \in keep THEN <<Head(seq)>> ELSE <<>>)
         \o Filter(Tail(seq), keep)

Reverse(seq) == [i \in 1..Len(seq) |-> seq[Len(seq) + 1 - i]]

\* A plausible slip: the branch is marked as found, not the module reported.
report_marksBranch(st, name, branch) ==
    IF name \in st.found THEN st
    ELSE [ found |-> st.found \cup {branch},
           kids  |-> [st.kids EXCEPT ![branch] = Append(@, name)],
           queue |-> Append(st.queue, name) ]

\* report(name, branch), on the call's state: found, the branches' children
\* (found[name] is the branch named name) and the queue.
report(st, name, branch) ==
    IF name \in st.found THEN st
    ELSE [ found |-> st.found \cup {name},
           kids  |-> [st.kids EXCEPT ![branch] = Append(@, name)],
           queue |-> Append(st.queue, name) ]

\* for(let name of entryPoints) report(name, output)
RECURSIVE ReportEach(_, _, _)
ReportEach(st, names, branch) ==
    IF names = <<>> THEN st
    ELSE ReportEach(report(st, Head(names), branch), Tail(names), branch)

\* for(let dep of item.deps) report(item.depMap[dep], branch)
RECURSIVE ReportDeps(_, _, _)
ReportDeps(st, item, branch) ==
    IF item.deps = <<>> THEN st
    ELSE ReportDeps(report(st, item.depMap[Head(item.deps)], branch),
                    [item EXCEPT !.deps = Tail(@)], branch)

\* importedTbl: the modules some item's depMap gives for one of its deps.
ImportedTbl(tree) ==
    UNION { { tree[m].depMap[tree[m].deps[i]] : i \in 1..Len(tree[m].deps) } :
            m \in DOMAIN tree }

\* The entry points makeTree assumes when the result reports none.
InferEntryPoints(tree) == Filter(Keys, Modules \ ImportedTbl(tree))

\* A plausible slip: the queue is used as a stack (pop for shift).
shift_asPop(q) == [ name |-> q[Len(q)], rest |-> SubSeq(q, 1, Len(q) - 1) ]

\* queue.shift()
shift(q) == [ name |-> Head(q), rest |-> Tail(q) ]

(***************************************************************************)
(* The parts that a specification leaves out stay idle.                    *)
(***************************************************************************)

CodecIdle ==
    /\ cPc = "idle" /\ cSep = "/" /\ cPath = <<>> /\ cUrl = <<>> /\ cBack = <<>>

TreeIdle ==
    /\ tPc = "idle" /\ result = <<>> /\ entryPoints = <<>> /\ found = {}
    /\ kids = <<>> /\ queue = <<>> /\ shifted = <<>>

BuildIdle ==
    /\ phase = "idle" /\ hook = "old" /\ options = <<>> /\ withExtension = FALSE
    /\ fsys = {} /\ loaderMap = NoMap /\ resolved = {} /\ frames = <<>>
    /\ called = 0 /\ mapState = <<>> /\ repoTbl = EmptyObject
    /\ fixTbl = EmptyObject /\ config = Undefined
    /\ stores = <<>> /\ mapBase = EmptyObject

(***************************************************************************)
(* Codec specification: a native path is encoded, then decoded.            *)
(***************************************************************************)

\* At most this many pieces make up an input path.
MaxPieces == 4

Pieces ==
    { <<"f","i","l","e",":">>, <<"/">>, <<"\\">>, <<"C",":">>, <<"a">> }

RECURSIVE PathsOf(_)
PathsOf(n) ==
    IF n = 0 THEN { <<>> }
    ELSE LET shorter == PathsOf(n - 1)
         IN  shorter \cup { p \o q : p \in shorter, q \in Pieces }

codecOthers == <<treeVars, buildVars, tableVars>>

CodecInit ==
    /\ TreeIdle
    /\ BuildIdle
    /\ cPc = "start"
    /\ cSep \in {"/", "\\"}
    /\ cPath \in PathsOf(MaxPieces)
    /\ cUrl = <<>>
    /\ cBack = <<>>

Encode ==
    /\ cPc = "start"
    /\ cUrl' = path2url(cSep, cPath)
    /\ cPc' = "encoded"
    /\ UNCHANGED <<cSep, cPath, cBack>>
    /\ UNCHANGED codecOthers

Decode ==
    /\ cPc = "encoded"
    /\ cBack' = url2path(cSep, cUrl)
    /\ cPc' = "decoded"
    /\ UNCHANGED <<cSep, cPath, cUrl>>
    /\ UNCHANGED codecOthers

CodecNext == Encode \/ Decode

SpecCodec == CodecInit /\ [][CodecNext]_vars

(***************************************************************************)
(* makeTree specification: a build result is drawn, the entry points are   *)
(* reported, then the queue loop runs one iteration per step.              *)
(***************************************************************************)

\* At most this many import edges in a drawn build result.
MaxEdges == 5

AllEdges == Modules \X Modules

\* The entry-point lists a drawn result may report.
EntryChoices ==
    { NoEntryPoints, <<>>, <<"A">>, <<"A", "B">>, <<"B", "A">>, <<"A", "A">> }

\* The item of module m: its deps in key order, or reversed.
ItemOf(m, edges, reversed) ==
    LET targets == Filter(Keys, { d \in Modules : <<m, d>> \in edges })
        ordered == IF reversed THEN Reverse(targets) ELSE targets
    IN  [ deps   |-> [i \in 1..Len(ordered) |-> SpecifierOf(ordered[i])],
          depMap |-> DepMap ]

treeOthers == <<codecVars, buildVars, tableVars>>

TreeInit ==
    /\ CodecIdle
    /\ BuildIdle
    /\ tPc = "start"
    /\ \E edges \in SUBSET AllEdges, reversed \in BOOLEAN, entries \in EntryChoices :
          /\ Cardinality(edges) <= MaxEdges
          /\ result = [ entryPoints |-> entries,
                        tree |-> [m \in Modules |-> ItemOf(m, edges, reversed)] ]
    /\ entryPoints = <<>>
    /\ found = {}
    /\ kids = [b \in Modules \cup {Root} |-> <<>>]
    /\ queue = <<>>
    /\ shifted = <<>>

\* Up to the loop: the entry points are settled and reported under the root.
TreeEntry ==
    /\ tPc = "start"
    /\ LET entries == IF result.entryPoints = NoEntryPoints
                      THEN InferEntryPoints(result.tree)
                      ELSE result.entryPoints
           st == ReportEach([found |-> found, kids |-> kids, queue |-> queue],
                            entries, Root)
       IN  /\ entryPoints' = entries
           /\ found' = st.found
           /\ kids' = st.kids
           /\ queue' = st.queue
    /\ tPc' = "loop"
    /\ UNCHANGED <<result, shifted>>
    /\ UNCHANGED treeOthers

\* One iteration of while(queue.length).
TreeVisit ==
    /\ tPc = "loop"
    /\ queue # <<>>
    /\ LET taken == shift(queue)
           st == ReportDeps([found |-> found, kids |-> kids, queue |-> taken.rest],
                            result.tree[taken.name], taken.name)
       IN  /\ found' = st.found
           /\ kids' = st.kids
           /\ queue' = st.queue
           /\ shifted' = Append(shifted, taken.name)
    /\ UNCHANGED <<tPc, result, entryPoints>>
    /\ UNCHANGED treeOthers

\* return(output)
TreeReturn ==
    /\ tPc = "loop"
    /\ queue = <<>>
    /\ tPc' = "done"
    /\ UNCHANGED <<result, entryPoints, found, kids, queue, shifted>>
    /\ UNCHANGED treeOthers

TreeNext == TreeEntry \/ TreeVisit \/ TreeReturn

SpecTree == TreeInit /\ [][TreeNext]_vars

\* makeTree is synchronous: once called it runs on until it returns.
SpecTreeLive == TreeInit /\ [][TreeNext]_vars /\ WF_vars(TreeNext)


(***************************************************************************)
(* build specification: the bundler calls the replaced normalize, each     *)
(* call runs its promise chain one settled promise per step, then the      *)
(* chain of build maps the extra packages, restores normalize and writes   *)
(* the configuration.                                                      *)
(***************************************************************************)

\* At most this many normalize calls come from the bundler.
MaxCalls == 1

\* The options build may get.
OptionChoices ==
    { [ mapPackages |-> <<>>, outConfigPath |-> FALSE, debug |-> FALSE,
        includeConfigList |-> <<>> ],
      [ mapPackages |-> <<NX>>, outConfigPath |-> TRUE, debug |-> FALSE,
        includeConfigList |-> <<>> ],
      [ mapPackages |-> <<NY, NX>>, outConfigPath |-> TRUE, debug |-> TRUE,
        includeConfigList |-> <<>> ] }

buildOthers == <<codecVars, treeVars, tableVars>>

\* The state when build has replaced builder.loader.normalize and has
\* called the bundler.
Init ==
    /\ CodecIdle
    /\ TreeIdle
    /\ phase = "bundling"
    /\ hook = "new"
    /\ options \in OptionChoices
    /\ withExtension \in BOOLEAN
    /\ fsys \in FileSystems
    /\ loaderMap \in LoaderMaps
    /\ resolved = {}
    /\ frames = <<>>
    /\ called = 0
    /\ mapState = <<>>
    /\ repoTbl = EmptyObject
    /\ fixTbl = EmptyObject
    /\ config = Undefined
    /\ stores = <<>>
    /\ mapBase = EmptyObject

\* A call of the replaced normalize that has just been made.
NewFrame(name, parentName, depth) ==
    [ name |-> name, parentName |-> parentName, depth |-> depth,
      pc |-> "normalize", pathName |-> Undefined, indexName |-> Undefined,
      value |-> Undefined, waitsFor |-> 0,
      readMap |-> FALSE, probedIndex |-> FALSE, findCalls |-> 0,
      resolution |-> "none", wrote |-> {} ]

Settled(frame) == frame.pc \in {"fulfilled", "rejected"}

Fulfil(frame, value) == [frame EXCEPT !.pc = "fulfilled", !.value = value]

\* browser-resolve answers alike for the same name and directory.
ResolverAnswers(name, dir) ==
    IF \E t \in resolved : t[1] = name /\ t[2] = dir
    THEN { t[3] : t \in { u \in resolved : u[1] = name /\ u[2] = dir } }
    ELSE Resolutions(name, dir)

\* The bundler calls builder.loader.normalize(name, parentName, ...).
BundlerNormalize ==
    /\ phase = "bundling"
    /\ hook = "new"
    /\ called < MaxCalls
    /\ \E name \in Names, parentName \in ParentNames :
          frames' = Append(frames, NewFrame(name, parentName, 0))
    /\ called' = called + 1
    /\ UNCHANGED <<phase, hook, worldVars, resolved, mapState, repoTbl, fixTbl,
                   config>>
    /\ UNCHANGED buildOthers

\* oldNormalize.call(...) is fulfilled: fs.stat of the result is started.
OldNormalizeFulfilled(f) ==
    /\ frames[f].pc = "normalize"
    /\ frames' = [frames EXCEPT ![f] =
          [@ EXCEPT !.pc = "stat",
                    !.pathName = oldNormalize(frames[f].name, withExtension)]]
    /\ UNCHANGED <<phase, hook, worldVars, resolved, called, mapState, repoTbl,
                   fixTbl, config>>
    /\ UNCHANGED buildOthers

\* A plausible slip: newNormalize copes with the unset pathName and goes on
\* to findPackage.
OldNormalizeRejected_recovers(f) ==
    /\ frames[f].pc = "normalize"
    /\ frames' = [frames EXCEPT ![f] = [@ EXCEPT !.pc = "resolve", !.findCalls = @ + 1]]
    /\ UNCHANGED <<phase, hook, worldVars, resolved, called, mapState, repoTbl,
                   fixTbl, config>>
    /\ UNCHANGED buildOthers

\* oldNormalize.call(...) is rejected: the catch calls newNormalize with
\* pathName unset, whose pathName.replace throws.
OldNormalizeRejected(f) ==
    /\ frames[f].pc = "normalize"
    /\ frames' = [frames EXCEPT ![f] = [@ EXCEPT !.pc = "rejected"]]
    /\ UNCHANGED <<phase, hook, worldVars, resolved, called, mapState, repoTbl,
                   fixTbl, config>>
    /\ UNCHANGED buildOthers

\* fs.stat finds the normalized path: the call returns it.
StatHit(f) ==
    /\ frames[f].pc = "stat"
    /\ StatSucceeds(fsys, frames[f].pathName)
    /\ frames' = [frames EXCEPT ![f] = Fulfil(@, frames[f].pathName)]
    /\ UNCHANGED <<phase, hook, worldVars, resolved, called, mapState, repoTbl,
                   fixTbl, config>>
    /\ UNCHANGED buildOthers

\* A plausible slip: the alias is handed to the loader's own normalize, the
\* one kept in oldNormalize.
StatMissAlias_original(f) ==
    /\ frames[f].pc = "stat"
    /\ ~ StatSucceeds(fsys, frames[f].pathName)
    /\ AliasOf(loaderMap, frames[f].name) # Undefined
    /\ frames[f].depth = 0
    /\ frames' = [frames EXCEPT ![f] =
          [Fulfil(@, oldNormalize(AliasOf(loaderMap, frames[f].name), withExtension))
              EXCEPT !.indexName = IndexNameOf(frames[f].pathName),
                     !.readMap = loaderMap.isSet]]
    /\ UNCHANGED <<phase, hook, worldVars, resolved, called, mapState, repoTbl,
                   fixTbl, config>>
    /\ UNCHANGED buildOthers

\* fs.stat fails and newNormalize finds an alias in builder.loader.map: it
\* returns builder.loader.normalize(other, ...), a call of the replaced
\* normalize. The call nested in a call of the bundler has a frame of its
\* own.
StatMissAlias(f) ==
    /\ frames[f].pc = "stat"
    /\ ~ StatSucceeds(fsys, frames[f].pathName)
    /\ AliasOf(loaderMap, frames[f].name) # Undefined
    /\ frames[f].depth = 0
    /\ frames' = Append(
          [frames EXCEPT ![f] =
              [@ EXCEPT !.pc = "nested",
                        !.indexName = IndexNameOf(frames[f].pathName),
                        !.readMap = loaderMap.isSet,
                        !.waitsFor = Len(frames) + 1]],
          NewFrame(AliasOf(loaderMap, frames[f].name), frames[f].parentName,
                   frames[f].depth + 1))
    /\ UNCHANGED <<phase, hook, worldVars, resolved, called, mapState, repoTbl,
                   fixTbl, config>>
    /\ UNCHANGED buildOthers

\* The same in a call that is itself nested: the promise newNormalize
\* returns is the promise of the call it makes, so the call for name settles
\* as the call for other does, and the frame goes on as that call (depth 2:
\* nested twice or more). The promises and closures each such call adds are
\* not counted.
StatMissAliasDeep(f) ==
    /\ frames[f].pc = "stat"
    /\ ~ StatSucceeds(fsys, frames[f].pathName)
    /\ AliasOf(loaderMap, frames[f].name) # Undefined
    /\ frames[f].depth >= 1
    /\ frames' = [frames EXCEPT ![f] =
          NewFrame(AliasOf(loaderMap, frames[f].name), frames[f].parentName,
                   2)]
    /\ UNCHANGED <<phase, hook, worldVars, resolved, called, mapState, repoTbl,
                   fixTbl, config>>
    /\ UNCHANGED buildOthers

\* fs.stat fails and no alias applies: fs.stat of indexName is started.
StatMissIndex(f) ==
    /\ frames[f].pc = "stat"
    /\ ~ StatSucceeds(fsys, frames[f].pathName)
    /\ AliasOf(loaderMap, frames[f].name) = Undefined
    /\ frames' = [frames EXCEPT ![f] =
          [@ EXCEPT !.pc = "statIndex",
                    !.indexName = IndexNameOf(frames[f].pathName),
                    !.readMap = loaderMap.isSet,
                    !.probedIndex = TRUE]]
    /\ UNCHANGED <<phase, hook, worldVars, resolved, called, mapState, repoTbl,
                   fixTbl, config>>
    /\ UNCHANGED buildOthers

\* The call that builder.loader.normalize(other, ...) made has settled, and
\* the promise newNormalize returned follows it.
NestedSettles(f) ==
    /\ frames[f].pc = "nested"
    /\ Settled(frames[frames[f].waitsFor])
    /\ frames' = [frames EXCEPT ![f] =
          [@ EXCEPT !.pc = frames[frames[f].waitsFor].pc,
                    !.value = frames[frames[f].waitsFor].value]]
    /\ UNCHANGED <<phase, hook, worldVars, resolved, called, mapState, repoTbl,
                   fixTbl, config>>
    /\ UNCHANGED buildOthers

\* fs.stat finds indexName: the fix is stored and indexName returned.
StatIndexHit(f) ==
    /\ frames[f].pc = "statIndex"
    /\ StatSucceeds(fsys, frames[f].indexName)
    /\ fixTbl' = RecordFix(fixTbl, frames[f].pathName, frames[f].indexName)
    /\ frames' = [frames EXCEPT ![f] =
          [Fulfil(@, frames[f].indexName) EXCEPT
              !.wrote = @ \cup {<<"fixTbl", FixPath(frames[f].pathName)>>}]]
    /\ UNCHANGED <<phase, hook, worldVars, resolved, called, mapState, repoTbl,
                   config>>
    /\ UNCHANGED buildOthers

\* fs.stat fails for indexName: the catch calls findPackage(name,
\* parentName). With no parentName url2path throws, and the last catch
\* returns pathName; else browser-resolve is started.
StatIndexMiss(f) ==
    /\ frames[f].pc = "statIndex"
    /\ ~ StatSucceeds(fsys, frames[f].indexName)
    /\ frames' = [frames EXCEPT ![f] =
          IF frames[f].parentName = Undefined
          THEN [Fulfil(@, frames[f].pathName) EXCEPT !.findCalls = @ + 1,
                                             !.resolution = "threw"]
          ELSE [@ EXCEPT !.pc = "resolve", !.findCalls = @ + 1]]
    /\ UNCHANGED <<phase, hook, worldVars, resolved, called, mapState, repoTbl,
                   fixTbl, config>>
    /\ UNCHANGED buildOthers

\* The directory browser-resolve starts from, given options.filename.
RequesterDir(parentName) == dirname(url2path(PathSep, parentName))

\* browser-resolve has answered a call of newNormalize's findPackage: on a
\* failure or a core module the last catch returns pathName, else the
\* package is stored and its path returned.
ResolveSettles(f) ==
    /\ frames[f].pc = "resolve"
    /\ LET name == frames[f].name
           dir  == RequesterDir(frames[f].parentName)
       IN  \E res \in ResolverAnswers(name, dir) :
             /\ resolved' = resolved \cup {<<name, dir, res>>}
             /\ IF FindPackageFails(name, res)
                THEN /\ frames' = [frames EXCEPT ![f] =
                          [Fulfil(@, frames[f].pathName) EXCEPT
                              !.resolution =
                                  IF res.kind = "error" THEN "error" ELSE "internal"]]
                     /\ UNCHANGED <<repoTbl>>
                ELSE /\ repoTbl' = RecordPackage(repoTbl, name, PackageSpecOf(name, res))
                     /\ frames' = [frames EXCEPT ![f] =
                          [Fulfil(@, PackageResult(res)) EXCEPT
                              !.resolution = "file",
                              !.wrote = @ \cup {<<"repoTbl", name>>}]]
    /\ UNCHANGED <<phase, hook, worldVars, called, mapState, fixTbl, config>>
    /\ UNCHANGED buildOthers

\* A plausible slip: normalize is restored as soon as the bundler is done.
BundleFulfilled_restores ==
    /\ phase = "bundling"
    /\ \A f \in 1..Len(frames) : frames[f].pc = "fulfilled"
    /\ phase' = "mapping"
    /\ hook' = "old"
    /\ mapState' = [i \in 1..Len(options.mapPackages) |-> "pending"]
    /\ mapBase' = repoTbl
    /\ UNCHANGED <<worldVars, resolved, frames, called, repoTbl, fixTbl, config>>
    /\ UNCHANGED <<codecVars, treeVars, stores>>

\* The bundler's promise is fulfilled: Promise.map calls findPackage for
\* every name of options.mapPackages.
BundleFulfilled ==
    /\ phase = "bundling"
    /\ \A f \in 1..Len(frames) : frames[f].pc = "fulfilled"
    /\ phase' = "mapping"
    /\ mapState' = [i \in 1..Len(options.mapPackages) |-> "pending"]
    /\ mapBase' = repoTbl
    /\ UNCHANGED <<hook, worldVars, resolved, frames, called, repoTbl, fixTbl,
                   config>>
    /\ UNCHANGED <<codecVars, treeVars, stores>>

\* The bundler's promise is rejected, at the first normalize call that is
\* rejected or for a reason of the bundler's own once its calls have
\* settled: no then-callback of build runs.
BundleRejected ==
    /\ phase = "bundling"
    /\ \/ \E f \in 1..Len(frames) : frames[f].pc = "rejected"
       \/ \A f \in 1..Len(frames) : Settled(frames[f])
    /\ phase' = "rejected"
    /\ UNCHANGED <<hook, worldVars, resolved, frames, called, mapState, repoTbl,
                   fixTbl, config>>
    /\ UNCHANGED buildOthers

PackageJson == resolvePath(BasePath, <<"p","a","c","k","a","g","e",".","j","s","o","n">>)

\* browser-resolve has answered one findPackage call of Promise.map; a
\* failure rejects the promise of Promise.map at once.
MapResolveSettles(i) ==
    /\ mapState[i] = "pending"
    /\ LET name == options.mapPackages[i]
           dir  == RequesterDir(PackageJson)
       IN  \E res \in ResolverAnswers(name, dir) :
             /\ resolved' = resolved \cup {<<name, dir, res>>}
             /\ IF FindPackageFails(name, res)
                THEN /\ mapState' = [mapState EXCEPT ![i] = "rejected"]
                     /\ phase' = IF phase = "mapping" THEN "rejected" ELSE phase
                     /\ UNCHANGED <<repoTbl>>
                ELSE /\ mapState' = [mapState EXCEPT ![i] = "fulfilled"]
                     /\ repoTbl' = RecordPackage(repoTbl, name, PackageSpecOf(name, res))
                     /\ UNCHANGED phase
    /\ UNCHANGED <<hook, worldVars, frames, called, fixTbl, config>>
    /\ UNCHANGED buildOthers

\* A plausible slip: the restoring assignment is left out.
MapFulfilled_keepsHook ==
    /\ phase = "mapping"
    /\ \A i \in 1..Len(mapState) : mapState[i] = "fulfilled"
    /\ phase' = IF options.outConfigPath THEN "shim" ELSE "fulfilled"
    /\ UNCHANGED <<hook, worldVars, resolved, frames, called, mapState, repoTbl,
                   fixTbl, config>>
    /\ UNCHANGED buildOthers

\* Promise.map is fulfilled: normalize is restored, and with an
\* outConfigPath the process shim is looked up.
MapFulfilled ==
    /\ phase = "mapping"
    /\ \A i \in 1..Len(mapState) : mapState[i] = "fulfilled"
    /\ hook' = "old"
    /\ phase' = IF options.outConfigPath THEN "shim" ELSE "fulfilled"
    /\ UNCHANGED <<worldVars, resolved, frames, called, mapState, repoTbl, fixTbl,
                   config>>
    /\ UNCHANGED buildOthers

ShimPath ==
    IF options.debug THEN <<"/","b","/","n","o","d","e","_","m","o","d","u","l","e","s","/","c","b","u","i","l","d","/","p","r","o","c","e","s","s","-","d","e","v",".","j","s">>
    ELSE <<"/","b","/","n","o","d","e","_","m","o","d","u","l","e","s","/","c","b","u","i","l","d","/","p","r","o","c","e","s","s",".","j","s">>

\* The shim is found and writeConfig writes the configuration.
ConfigWritten ==
    /\ phase = "shim"
    /\ config' = writeConfig(options, repoTbl, fixTbl, relative(BasePath, ShimPath))
    /\ phase' = "fulfilled"
    /\ UNCHANGED <<hook, worldVars, resolved, frames, called, mapState, repoTbl,
                   fixTbl>>
    /\ UNCHANGED buildOthers

\* The shim is not found, or a file cannot be read or written.
ConfigFails ==
    /\ phase = "shim"
    /\ phase' = "rejected"
    /\ UNCHANGED <<hook, worldVars, resolved, frames, called, mapState, repoTbl,
                   fixTbl, config>>
    /\ UNCHANGED buildOthers

Next ==
    \/ BundlerNormalize
    \/ \E f \in 1..Len(frames) :
          \/ OldNormalizeFulfilled(f)
          \/ OldNormalizeRejected(f)
          \/ StatHit(f)
          \/ StatMissAlias(f)
          \/ StatMissAliasDeep(f)
          \/ StatMissIndex(f)
          \/ NestedSettles(f)
          \/ StatIndexHit(f)
          \/ StatIndexMiss(f)
          \/ ResolveSettles(f)
    \/ BundleFulfilled
    \/ BundleRejected
    \/ \E i \in 1..Len(mapState) : MapResolveSettles(i)
    \/ MapFulfilled
    \/ ConfigWritten
    \/ ConfigFails

Spec == Init /\ [][Next]_vars

\* The frames a build can have: the bundler's calls and the calls nested in
\* each.
MaxFrames == MaxCalls * 2

\* One step of call f: a promise of oldNormalize, fs.stat or browser-resolve
\* settles and its callback runs.
FrameStep(f) ==
    /\ f \in 1..Len(frames)
    /\ \/ OldNormalizeFulfilled(f)
       \/ OldNormalizeRejected(f)
       \/ StatHit(f)
       \/ StatMissAlias(f)
       \/ StatMissAliasDeep(f)
       \/ StatMissIndex(f)
       \/ NestedSettles(f)
       \/ StatIndexHit(f)
       \/ StatIndexMiss(f)
       \/ ResolveSettles(f)

\* The build where every promise a call waits for settles in the end and
\* the event loop runs its callback.
Fairness == \A f \in 1..MaxFrames : WF_vars(FrameStep(f))

SpecLive == Init /\ [][Next]_vars /\ Fairness


(***************************************************************************)
(* Tables specification: the stores of a build taken one after another,    *)
(* findPackage's into repoTbl and the index fallback's into fixTbl, and    *)
(* then writeConfig.                                                       *)
(***************************************************************************)

\* At most this many calls store before the configuration is written.
MaxStores == 3

\* The options: with no included file, and with one that has been read.
TableOptions ==
    { [ mapPackages |-> <<>>, outConfigPath |-> TRUE, debug |-> FALSE,
        includeConfigList |-> list ] :
      list \in { <<>>, << <<"var base = \"/\";">> >> } }

\* The directories findPackage is asked from: the project's, package y's.
RequesterDirs == { BasePath, <<"/","b","/","n","o","d","e","_","m","o","d","u","l","e","s","/","y">> }

tableOthers == <<codecVars, treeVars, hook, withExtension, fsys, loaderMap,
                 frames, mapState, mapBase>>

TablesInit ==
    /\ CodecIdle
    /\ TreeIdle
    /\ phase = "bundling"
    /\ hook = "new"
    /\ options \in TableOptions
    /\ withExtension = TRUE
    /\ fsys = {}
    /\ loaderMap = NoMap
    /\ resolved = {}
    /\ frames = <<>>
    /\ called = 0
    /\ mapState = <<>>
    /\ repoTbl = EmptyObject
    /\ fixTbl = EmptyObject
    /\ config = Undefined
    /\ stores = <<>>
    /\ mapBase = EmptyObject

\* findPackage(name, parentName) runs to its end: on the resolver's failure
\* or a core module nothing is stored.
FindPackageCall ==
    /\ phase = "bundling"
    /\ called < MaxStores
    /\ \E name \in {NX, NY}, dir \in RequesterDirs :
         \E res \in ResolverAnswers(name, dir) :
            /\ resolved' = resolved \cup {<<name, dir, res>>}
            /\ IF FindPackageFails(name, res)
               THEN UNCHANGED <<repoTbl, stores>>
               ELSE /\ repoTbl' = RecordPackage(repoTbl, name, PackageSpecOf(name, res))
                    /\ stores' = Append(stores,
                          [ name |-> name, dir |-> dir, res |-> res,
                            after |-> RecordPackage(repoTbl, name,
                                                    PackageSpecOf(name, res)) ])
    /\ called' = called + 1
    /\ UNCHANGED <<phase, options, fixTbl, config>>
    /\ UNCHANGED tableOthers

\* newNormalize finds indexName for a name and stores the fix.
IndexFixCall ==
    /\ phase = "bundling"
    /\ called < MaxStores
    /\ \E name \in Names :
          fixTbl' = RecordFix(fixTbl, oldNormalize(name, withExtension),
                              IndexNameOf(oldNormalize(name, withExtension)))
    /\ called' = called + 1
    /\ UNCHANGED <<phase, options, resolved, repoTbl, config, stores>>
    /\ UNCHANGED tableOthers

\* writeConfig(options, repoTbl, fixTbl, shimPath)
WriteConfigCall ==
    /\ phase = "bundling"
    /\ config' = writeConfig(options, repoTbl, fixTbl, relative(BasePath, ShimPath))
    /\ phase' = "fulfilled"
    /\ UNCHANGED <<options, resolved, called, repoTbl, fixTbl, stores>>
    /\ UNCHANGED tableOthers

TablesNext ==
    \/ FindPackageCall
    \/ IndexFixCall
    \/ WriteConfigCall

SpecTables == TablesInit /\ [][TablesNext]_vars


(***************************************************************************)
(* Claims about the replaced normalize                                     *)
(***************************************************************************)

\* The entries of a repository table: key, name and PackageSpec.
Entries(table) ==
    { <<table[ij[1]][1], table[ij[1]][2][ij[2]][1], table[ij[1]][2][ij[2]][2]>> :
        ij \in { kl \in (1..Len(table)) \X (1..(Len(table) + MaxCalls + 2)) :
                    kl[2] <= Len(table[kl[1]][2]) } }

Calls == 1..Len(frames)

\* The original normalizer has returned candidatePath in call f.
Returned(f) == frames[f].pathName # Undefined

\* candidatePath, or any path, exists as a file.
Exists(url) == url2path(PathSep, url) \in fsys

\* The path names a directory: a file lies somewhere below it.
Directory(url) ==
    \E file \in fsys :
        /\ Len(file) > Len(url2path(PathSep, url))
        /\ SubSeq(file, 1, Len(url2path(PathSep, url)) + 1)
              = url2path(PathSep, url) \o <<"/">>

\* A probe of the path hits: it names a file or a directory.
Found(url) == Exists(url) \/ Directory(url)

\* indexPath as the specification has it: a trailing .js gives way to
\* /index.js, any other path is left as it is.
IndexPath(candidatePath) ==
    IF EndsWith(candidatePath, <<".","j","s">>)
    THEN SubSeq(candidatePath, 1, Len(candidatePath) - 3) \o <<"/","i","n","d","e","x",".","j","s">>
    ELSE candidatePath

\* The alias map sends name to a different specifier.
Redirected(name) ==
    /\ loaderMap.isSet
    /\ \E i \in 1..Len(loaderMap.table) :
          /\ loaderMap.table[i][1] = name
          /\ loaderMap.table[i][2] # name

\* The './'-relative form of a path under the base directory.
DotRelative(url) ==
    <<".","/">> \o SubSeq(url2path(PathSep, url), Len(BasePath) + 2,
                     Len(url2path(PathSep, url)))

\* What call f has to show for the index fallback: indexPath returned, the
\* one FixTable entry stored, no package resolution.
IndexFallbackDone(f) ==
    LET candidatePath == frames[f].pathName
    IN  /\ frames[f].findCalls = 0
        /\ frames[f].pc # "rejected"
        /\ frames[f].pc = "fulfilled" =>
              /\ frames[f].value = IndexPath(candidatePath)
              /\ frames[f].wrote = { <<"fixTbl", DotRelative(candidatePath)>> }
              /\ Has(fixTbl, DotRelative(candidatePath))
              /\ Get(fixTbl, DotRelative(candidatePath))
                    = DotRelative(IndexPath(candidatePath))

IndexOnly(f) ==
    /\ Returned(f)
    /\ ~ Exists(frames[f].pathName)
    /\ Exists(IndexPath(frames[f].pathName))

\* C1 as stated: in every call, whatever the alias map holds, a candidatePath
\* that does not exist while indexPath does makes the call return indexPath
\* and store exactly one FixTable entry from the './'-relative candidatePath
\* to the './'-relative indexPath, without package resolution.
C1_FallbackOrdering ==
    \A f \in Calls : IndexOnly(f) => IndexFallbackDone(f)

\* C1, amended: the same, in the calls whose name the alias map does not
\* send to a different specifier and whose candidatePath is no directory
\* either.
C1_FallbackUnlessAliased ==
    \A f \in Calls :
        ( /\ IndexOnly(f)
          /\ ~ Found(frames[f].pathName)
          /\ ~ Redirected(frames[f].name) ) => IndexFallbackDone(f)

C1_Witness ==
    \E f \in Calls :
        /\ IndexOnly(f)
        /\ ~ Found(frames[f].pathName)
        /\ ~ Redirected(frames[f].name)
        /\ frames[f].pc = "fulfilled"
        /\ frames[f].value = IndexPath(frames[f].pathName)
        /\ Has(fixTbl, DotRelative(frames[f].pathName))

\* The answers browser-resolve gave for call f's name and directory.
AnswersFor(f) ==
    { t[3] : t \in { u \in resolved :
                        /\ frames[f].parentName # Undefined
                        /\ u[1] = frames[f].name
                        /\ u[2] = RequesterDir(frames[f].parentName) } }

\* C2, with the allowances the specification makes (a name the alias map
\* does not redirect; candidatePath returned when the resolution fails) and
\* for a candidatePath that is no directory: where neither candidatePath nor
\* indexPath exists, package resolution is invoked exactly once and the call
\* returns its resolved path; it is never invoked where candidatePath or
\* indexPath exists.
C2_PackageOnlyOnDoubleMiss ==
    \A f \in Calls :
        ( /\ Returned(f)
          /\ ~ Redirected(frames[f].name)
          /\ ~ Directory(frames[f].pathName) ) =>
            IF Exists(frames[f].pathName) \/ Exists(IndexPath(frames[f].pathName))
            THEN frames[f].findCalls = 0
            ELSE /\ frames[f].findCalls <= 1
                 /\ frames[f].pc # "rejected"
                 /\ frames[f].pc = "fulfilled" =>
                       /\ frames[f].findCalls = 1
                       /\ \/ frames[f].value = frames[f].pathName
                          \/ \E res \in AnswersFor(f) :
                                frames[f].value = PackageResult(res)

\* The package resolution of call f has failed: no importing module to
\* resolve from, a resolver error, or a core module.
ResolutionFailed(f) ==
    \/ frames[f].parentName = Undefined
    \/ \E res \in AnswersFor(f) : res.kind = "error" \/ res.pathName = frames[f].name

\* C3: once the original normalizer has returned candidatePath, the call
\* fails only with a call it made for an alias; when both probes miss and
\* package resolution fails, the call returns candidatePath and has stored
\* nothing in the tables.
C3_LocalRecovery ==
    \A f \in Calls :
        Returned(f) =>
            /\ frames[f].pc = "rejected" =>
                  /\ frames[f].waitsFor # 0
                  /\ frames[frames[f].waitsFor].pc = "rejected"
            /\ ( /\ Settled(frames[f])
                 /\ ~ Redirected(frames[f].name)
                 /\ ~ Found(frames[f].pathName)
                 /\ ~ Found(frames[f].indexName)
                 /\ ResolutionFailed(f) ) =>
                  /\ frames[f].pc = "fulfilled"
                  /\ frames[f].value = frames[f].pathName
                  /\ frames[f].wrote = {}
                  /\ frames[f].findCalls = 1

C3_Witness ==
    \E f \in Calls :
        /\ frames[f].pc = "fulfilled"
        /\ frames[f].findCalls = 1
        /\ \E res \in AnswersFor(f) : res.pathName = frames[f].name
        /\ frames[f].value = frames[f].pathName
        /\ repoTbl = EmptyObject /\ fixTbl = EmptyObject

\* C4: a candidatePath that exists is what the call returns, with the alias
\* map, the index path and the package resolver left alone and nothing
\* stored in the tables.
C4_ExistenceHit ==
    \A f \in Calls :
        (Returned(f) /\ Exists(frames[f].pathName) /\ frames[f].pc # "stat") =>
            /\ frames[f].pc = "fulfilled"
            /\ frames[f].value = frames[f].pathName
            /\ ~ frames[f].readMap
            /\ ~ frames[f].probedIndex
            /\ frames[f].indexName = Undefined
            /\ frames[f].waitsFor = 0
            /\ frames[f].findCalls = 0
            /\ frames[f].wrote = {}

C4_Witness ==
    \E f \in Calls :
        /\ frames[f].pc = "fulfilled"
        /\ Exists(frames[f].pathName)
        /\ frames[f].value = frames[f].pathName
        /\ repoTbl = EmptyObject /\ fixTbl = EmptyObject


\* The specifier the alias map holds for a name.
Target(name) ==
    loaderMap.table[CHOOSE i \in 1..Len(loaderMap.table) :
                        loaderMap.table[i][1] = name][2]

\* Call f has settled for a name the alias map redirects, its candidatePath
\* being neither file nor directory.
AliasedCall(f) ==
    /\ Returned(f)
    /\ ~ Found(frames[f].pathName)
    /\ Redirected(frames[f].name)
    /\ frames[f].pc \in {"fulfilled", "rejected"}

\* Call g ran nothing but the original normalizer.
OriginalOnly(g) ==
    /\ ~ frames[g].probedIndex
    /\ frames[g].findCalls = 0
    /\ frames[g].wrote = {}

\* C18 as stated: with candidatePath and indexPath both missing and name
\* redirected to another specifier, the call returns what the original
\* normalizer returns for that specifier; neither existence probe, index
\* fallback nor package resolution runs on it, and neither a PackageSpec nor a
\* FixTable entry is stored.
C18_AliasUsesOriginal ==
    \A f \in Calls :
        (AliasedCall(f) /\ ~ Found(IndexPath(frames[f].pathName))) =>
            /\ frames[f].pc = "fulfilled"
            /\ frames[f].value = oldNormalize(Target(frames[f].name), withExtension)
            /\ OriginalOnly(f)
            /\ frames[f].waitsFor \in Calls => OriginalOnly(frames[f].waitsFor)

\* C18, amended: with candidatePath missing and name redirected to another
\* specifier, the call neither probes indexPath nor resolves a package for
\* name and stores nothing itself; it settles as the call of the replaced
\* normalize for the other specifier and the same parent settles, and that
\* call runs the whole chain: a candidatePath of the other specifier that is
\* found is returned, and one that is missing, not redirected and without
\* index goes to package resolution.
C18_AliasUsesInterceptor ==
    \A f \in Calls :
        AliasedCall(f) =>
            /\ OriginalOnly(f)
            /\ frames[f].waitsFor \in Calls
            /\ LET g == frames[f].waitsFor
               IN  /\ frames[g].depth = 1 =>
                         frames[g].name = Target(frames[f].name)
                   /\ frames[g].parentName = frames[f].parentName
                   /\ frames[f].pc = frames[g].pc
                   /\ frames[f].value = frames[g].value
                   /\ Returned(g) /\ Found(frames[g].pathName) =>
                         frames[f].value = frames[g].pathName
                   /\ ( /\ Returned(g)
                        /\ ~ Found(frames[g].pathName)
                        /\ ~ Redirected(frames[g].name)
                        /\ ~ Found(IndexPath(frames[g].pathName)) ) =>
                         /\ frames[g].probedIndex
                         /\ frames[g].findCalls = 1
                         /\ \A t \in resolved :
                               ( /\ t[1] = frames[g].name
                                 /\ t[2] = RequesterDir(frames[g].parentName)
                                 /\ t[3].kind = "file"
                                 /\ t[3].pathName # frames[g].name ) =>
                                   /\ frames[f].value
                                         = path2url(PathSep, relative(BasePath, t[3].pathName))
                                   /\ \E e \in Entries(repoTbl) : e[2] = frames[g].name

\* An aliased call has returned the path of a package that was resolved and
\* stored for the other specifier.
C18_Witness ==
    \E f \in Calls :
        /\ AliasedCall(f)
        /\ ~ Found(IndexPath(frames[f].pathName))
        /\ frames[f].pc = "fulfilled"
        /\ frames[f].waitsFor \in Calls
        /\ frames[frames[f].waitsFor].findCalls = 1
        /\ frames[frames[f].waitsFor].wrote # {}
        /\ frames[f].value # oldNormalize(Target(frames[f].name), withExtension)

\* The step ends the original normalizer's part of call f with a failure: no
\* candidatePath has come back.
DelegateFails(f) ==
    /\ frames[f].pc = "normalize"
    /\ frames'[f].pc # "normalize"
    /\ frames'[f].pathName = Undefined

\* Call f failed in the original normalizer and is over.
DelegateFailed(f) ==
    /\ frames[f].pc # "normalize"
    /\ frames[f].pathName = Undefined

C21_Step ==
    \A f \in Calls :
        /\ DelegateFails(f) =>
              /\ frames'[f].pc = "rejected"
              /\ frames'[f].value = Undefined
              /\ frames'[f].findCalls = 0
              /\ ~ frames'[f].probedIndex
              /\ frames'[f].wrote = {}
              /\ resolved' = resolved
              /\ repoTbl' = repoTbl /\ fixTbl' = fixTbl
        /\ DelegateFailed(f) => frames'[f] = frames[f]

\* C21: when the original normalizer fails for a specifier, the call of the
\* replaced normalize fails and returns no path, and stays failed; no
\* package resolution is made, and the repository table (with it the package
\* table) and the FixTable are as they were.
C21_DelegateFailure == [][C21_Step]_vars

\* A call has failed in the original normalizer.
C21_Witness ==
    \E f \in Calls :
        /\ DelegateFailed(f)
        /\ frames[f].pc = "rejected"
        /\ frames[f].findCalls = 0

(***************************************************************************)
(* Claims about makeTree                                                   *)
(***************************************************************************)

\* The import edges of a module table.
EdgesOf(tree) ==
    UNION { { <<m, tree[m].depMap[tree[m].deps[i]]>> : i \in 1..Len(tree[m].deps) } :
            m \in DOMAIN tree }

SeqRange(seq) == { seq[i] : i \in 1..Len(seq) }

\* The modules at most k import hops away from the entry points.
RECURSIVE Within(_, _, _)
Within(k, entries, tree) ==
    IF k = 0 THEN entries
    ELSE LET near == Within(k - 1, entries, tree)
         IN  near \cup { e[2] : e \in { f \in EdgesOf(tree) : f[1] \in near } }

Reachable(entries, tree) == Within(Len(Keys), entries, tree)

MinHops(m, entries, tree) ==
    CHOOSE k \in 0..Len(Keys) :
        /\ m \in Within(k, entries, tree)
        /\ k = 0 \/ m \notin Within(k - 1, entries, tree)

\* How often module m is a branch of the tree.
Occurrences(m) ==
    Cardinality({ bi \in (Modules \cup {Root}) \X (1..(2 * Len(Keys))) :
                    /\ bi[2] <= Len(kids[bi[1]])
                    /\ kids[bi[1]][bi[2]] = m })

\* The depth of branch b below the root (-1: not attached to the root).
RECURSIVE DepthOf(_, _)
DepthOf(b, fuel) ==
    IF b = Root THEN 0
    ELSE IF fuel = 0 THEN -1
    ELSE LET parents == { q \in Modules \cup {Root} : b \in SeqRange(kids[q]) }
         IN  IF parents = {} THEN -1
             ELSE LET up == DepthOf(CHOOSE q \in parents : TRUE, fuel - 1)
                  IN  IF up = -1 THEN -1 ELSE up + 1

\* C5: when makeTree returns, every module reachable from the entry points
\* is a branch exactly once, at depth 1 + its least number of import hops
\* from an entry point, and no unreachable module is a branch.
C5_TreeShortestPath ==
    tPc = "done" =>
        \A m \in Modules :
            IF m \in Reachable(SeqRange(entryPoints), result.tree)
            THEN /\ Occurrences(m) = 1
                 /\ DepthOf(m, Len(Keys) + 1)
                      = 1 + MinHops(m, SeqRange(entryPoints), result.tree)
            ELSE Occurrences(m) = 0

\* C5's case: entry [A] and the edges A->B, A->C, B->C give C under A, and a
\* module two hops away (D under C) sits two levels below its entry point.
C5_Witness ==
    /\ tPc = "done"
    /\ result.entryPoints = <<"A">>
    /\ EdgesOf(result.tree) =
         { <<"A", "B">>, <<"A", "C">>, <<"B", "C">>, <<"C", "D">> }
    /\ kids[Root] = <<"A">>
    /\ kids["A"] = <<"B", "C">>
    /\ kids["B"] = <<>>
    /\ kids["C"] = <<"D">>

\* The modules no other module imports (a self-import is no import by another).
NotImportedByOthers(tree) ==
    { m \in Modules : ~ \E e \in EdgesOf(tree) : e[2] = m /\ e[1] # m }

\* C6: makeTree uses the reported entry-point list as it is, and with none
\* reported it takes exactly the modules that no other module imports.
C6_EntryPointInference ==
    tPc \in {"loop", "done"} =>
        entryPoints = IF result.entryPoints = NoEntryPoints
                      THEN Filter(Keys, NotImportedByOthers(result.tree))
                      ELSE result.entryPoints

\* The modules that were put on the queue, in the order they were put: those
\* taken off and those still on it.
Enqueued == shifted \o queue

\* No module is in the list twice.
NoRepeats(list) ==
    \A i \in 1..Len(list) : \A j \in 1..Len(list) : list[i] = list[j] => i = j

\* C22: on every module table whose dependency targets are keys of the table,
\* with cycles, self-imports and modules imported by several others, the
\* queue loop of makeTree ends and makeTree returns, and no module is put on
\* the queue or taken off it more than once.
C22_TreeTerminates ==
    /\ <>(tPc = "done")
    /\ [](NoRepeats(Enqueued) /\ NoRepeats(shifted))

\* makeTree has returned on a table with a self-import, a cycle of two
\* modules and a module that two other modules import, all of them visited.
C22_Witness ==
    /\ tPc = "done"
    /\ queue = <<>>
    /\ \E m \in Modules : <<m, m>> \in EdgesOf(result.tree) /\ m \in SeqRange(shifted)
    /\ \E m \in Modules, n \in Modules :
          /\ m # n
          /\ {<<m, n>>, <<n, m>>} \subseteq EdgesOf(result.tree)
          /\ {m, n} \subseteq SeqRange(shifted)
    /\ \E m \in Modules, n \in Modules, c \in Modules :
          /\ m # n /\ m # c /\ n # c
          /\ {<<m, c>>, <<n, c>>} \subseteq EdgesOf(result.tree)
          /\ {m, n, c} \subseteq SeqRange(shifted)

(***************************************************************************)
(* Claims about the tables and writeConfig                                 *)
(***************************************************************************)

\* The same entries in every order of insertion.
Orders(obj) ==
    { order \in [1..Len(obj) -> SeqRange(obj)] : SeqRange(order) = SeqRange(obj) }

\* The repository table with the same entries, the repositories and the
\* packages of each inserted in every order.
RepoOrders(table) ==
    UNION { Orders(inner) :
            inner \in { t \in [1..Len(table) ->
                                UNION { { <<table[i][1], specs>> :
                                          specs \in Orders(table[i][2]) } :
                                        i \in 1..Len(table) }] :
                        \A i \in 1..Len(table) : t[i][1] = table[i][1] } }

\* C7: the text writeConfig wrote is the text it writes for the same options
\* and shim path from tables that hold the same entries, inserted in any
\* other order.
C7_ConfigDeterminism ==
    phase = "fulfilled" =>
        \A table \in RepoOrders(repoTbl), fixes \in Orders(fixTbl) :
            writeConfig(options, table, fixes, relative(BasePath, ShimPath)) = config

\* The PackageSpecs a repository table holds for a name.
SpecsFor(table, name) ==
    { ij \in (1..Len(table)) \X (1..MaxStores) :
        /\ ij[2] <= Len(table[ij[1]][2])
        /\ table[ij[1]][2][ij[2]][1] = name }

\* C8: when findPackage stores for a name and requesting directory and is
\* then called again for the same (the resolver answering the same), the
\* table after the second call is the table after the first: no PackageSpec
\* is added for the name, which has exactly one in its repository and in
\* the package table, and the repository keys are the same.
C8_IdempotentRecording ==
    \A i \in 1..(Len(stores) - 1) :
        ( /\ stores[i + 1].name = stores[i].name
          /\ stores[i + 1].dir = stores[i].dir
          /\ stores[i + 1].res = stores[i].res ) =>
            LET first  == stores[i].after
                second == stores[i + 1].after
                name   == stores[i].name
                key    == RepoPathOf(PackageSpecOf(name, stores[i].res).rootPath)
            IN  /\ second = first
                /\ ObjectKeys(second) = ObjectKeys(first)
                /\ Cardinality(SpecsFor(second, name)) = Cardinality(SpecsFor(first, name))
                /\ Cardinality(SpecsFor(<< <<key, Get(second, key)>> >>, name)) = 1
                /\ Cardinality({ k \in 1..Len(PackageTblOf(EmptyObject, second)) :
                                    PackageTblOf(EmptyObject, second)[k][1] = name }) = 1

C8_Witness ==
    \E i \in 1..(Len(stores) - 1) :
        /\ stores[i + 1].name = stores[i].name
        /\ stores[i + 1].dir = stores[i].dir
        /\ stores[i + 1].res = stores[i].res
        /\ stores[i + 1].after = stores[i].after
        /\ repoTbl = stores[i + 1].after

\* A rootPath cut after the first of its directories that is named
\* node_modules and has something below it.
OutermostContainer(rootPath) ==
    LET segs == Segments(rootPath, <<>>)
        at   == { k \in 1..(Len(segs) - 1) : segs[k] = NodeModules }
    IN  IF at = {} THEN rootPath
        ELSE join(SubSeq(segs, 1, CHOOSE k \in at : \A l \in at : k <= l), "/")

\* Where the written text has a directive that gives the files under a
\* repository the process shim.
ShimDirectives ==
    { k \in 1..Len(config) : config[k] = "/*\": { globals: { process: \"" }

\* The directives among them that name the repository key.
ShimDirectivesFor(key) ==
    { k \in ShimDirectives :
        /\ k > Len(key) + 1
        /\ SubSeq(config, k - Len(key), k - 1) = key
        /\ config[k - Len(key) - 1] = "\t\t\"" }

\* C9: every recorded package is filed under its rootPath cut at the first
\* node_modules, a package of a nested node_modules under the outermost
\* one, and the written configuration has one shim directive for each key.
C9_GroupingKeyCollapse ==
    /\ \A i \in 1..Len(repoTbl) : \A j \in 1..Len(repoTbl[i][2]) :
          repoTbl[i][1] = OutermostContainer(repoTbl[i][2][j][2].rootPath)
    /\ phase = "fulfilled" =>
          /\ Cardinality(ShimDirectives) = Len(repoTbl)
          /\ \A i \in 1..Len(repoTbl) :
                Cardinality(ShimDirectivesFor(repoTbl[i][1])) = 1

C9_Witness ==
    /\ phase = "fulfilled"
    /\ Len(repoTbl) = 1
    /\ repoTbl[1][1] = <<"n","o","d","e","_","m","o","d","u","l","e","s">>
    /\ Has(repoTbl[1][2], NX) /\ Has(repoTbl[1][2], NY)
    /\ Get(repoTbl[1][2], NX).rootPath = <<"n","o","d","e","_","m","o","d","u","l","e","s","/","y","/","n","o","d","e","_","m","o","d","u","l","e","s","/","x">>
    /\ Get(repoTbl[1][2], NY).rootPath = <<"n","o","d","e","_","m","o","d","u","l","e","s","/","y">>
    /\ Cardinality(ShimDirectives) = 1

\* The specs a table holds for a name.
SpecsOf(table, name) == { e[3] : e \in { d \in Entries(table) : d[2] = name } }

\* The directory of the package.json that declares the resolved file, and
\* the resolved file, both relative to the base directory, as URLs.
DeclaringRoot(res) == path2url(PathSep, relative(BasePath, res.rootPath))
ResolvedFile(res) == path2url(PathSep, relative(BasePath, res.pathName))
EntryFromRoot(res) == path2url(PathSep, relative(res.rootPath, res.pathName))

\* C16 as stated: every successful findPackage(name, requester) records
\* under name a PackageSpec whose rootPath is the declaring package's root
\* directory relative to the base directory, with an entryPath (the path
\* from that directory to the resolved file) exactly when the declaring
\* package's own name equals name.
C16_RootIsPackageDirectory ==
    \A s \in 1..Len(stores) :
        \E spec \in SpecsOf(stores[s].after, stores[s].name) :
            /\ spec.rootPath = DeclaringRoot(stores[s].res)
            /\ (spec.entryPath # Undefined) <=> (stores[s].res.rootName = stores[s].name)
            /\ spec.entryPath # Undefined => spec.entryPath = EntryFromRoot(stores[s].res)

\* C16: every successful findPackage(name, requester) records under name a
\* PackageSpec; when the declaring package's own name equals name, rootPath
\* is that package's directory and entryPath the path from it to the
\* resolved file; when the names differ there is no entryPath and rootPath
\* is the resolved file itself, both relative to the base directory.
C16_RootByDeclaringName ==
    \A s \in 1..Len(stores) :
        \E spec \in SpecsOf(stores[s].after, stores[s].name) :
            IF stores[s].res.rootName = stores[s].name
            THEN /\ spec.rootPath = DeclaringRoot(stores[s].res)
                 /\ spec.entryPath = EntryFromRoot(stores[s].res)
                 /\ spec.entryPath # Undefined
            ELSE /\ spec.rootPath = ResolvedFile(stores[s].res)
                 /\ spec.entryPath = Undefined

\* One name was stored from a package of its own name, one from a package of
\* another name.
C16_Witness ==
    /\ \E s \in 1..Len(stores) : stores[s].res.rootName = stores[s].name
    /\ \E s \in 1..Len(stores) :
          /\ stores[s].res.rootName # stores[s].name
          /\ DeclaringRoot(stores[s].res) # ResolvedFile(stores[s].res)

\* C17: after any sequence of findPackage calls of one build each package
\* name has at most one PackageSpec in the whole repository table: no name is
\* filed under two repository keys.
C17_OneSpecPerName ==
    \A name \in Names : Cardinality(SpecsFor(repoTbl, name)) <= 1

\* The included files as writeConfig joins them.
Included == join(options.includeConfigList, "\n")

\* The places of the written text where the included files stand whole, each
\* place the beginning of a line.
IncludedAt ==
    { k \in 1..(Len(config) + 1) :
        /\ k + Len(Included) - 1 <= Len(config)
        /\ SubSeq(config, k, k + Len(Included) - 1) = Included
        /\ k = 1 \/ config[k - 1] = "\n" }

\* The place of the piece that opens the generated block.
BlockAt == { k \in 1..Len(config) : config[k] = "System.config({" }

\* C14: the written text holds the included files unaltered and in the order
\* given, the first line of the first file being a line of the text, and the
\* System.config block after them.
C14_FragmentsVerbatim ==
    config # Undefined =>
        \E k \in IncludedAt : \E b \in BlockAt : k + Len(Included) <= b

\* Where the written text has one of the pieces.
Places(pieces) == { k \in 1..Len(config) : config[k] \in pieces }

\* The openings of the sections: the name-to-path map, the shim directives,
\* a row that gives a package its main file, a map of path rewrites.
NameMapAt == Places({"\tmap: {\n"})
ShimAt    == Places({"\tmeta: {"})
MainRowAt == Places({"\": { main: \""})
RewriteAt == Places({"\t\t\tmap: {", "\t\t\tmap: {\n"})

\* The packages of the flattened table that recorded an entryPath.
WithEntryPath ==
    { name \in SeqRange(ObjectKeys(PackageTblOf(EmptyObject, repoTbl))) :
        Get(PackageTblOf(EmptyObject, repoTbl), name).entryPath # Undefined }

\* C19: the System.config block has its sections in the order name-to-path
\* map, global shim, entry-point overrides, path-rewrite map; there is one
\* override for each package with an entryPath and none for the others; and
\* a path-rewrite map is written only for a FixTable that is not empty.
C19_SectionStructure ==
    phase = "fulfilled" =>
        /\ \A a \in NameMapAt, b \in ShimAt : a < b
        /\ \A b \in ShimAt, c \in MainRowAt : b < c
        /\ \A c \in MainRowAt, d \in RewriteAt : c < d
        /\ Cardinality(MainRowAt) = Cardinality(WithEntryPath)
        /\ fixTbl = EmptyObject => RewriteAt = {}
        /\ fixTbl # EmptyObject => Cardinality(RewriteAt) = 1

(***************************************************************************)
(* Claims about the codec                                                  *)
(***************************************************************************)

\* C10 as stated: every native path survives path2url followed by url2path.
C10_RoundTripEveryPath ==
    cPc = "decoded" => cBack = cPath

\* The native paths the round trip keeps: a POSIX path that does not itself
\* begin with file://, a Windows path written with backslashes only and with
\* no separator in front of a drive prefix.
RoundTripPath(sep, p) ==
    IF sep = "/"
    THEN ~ StartsWith(p, FileScheme)
    ELSE /\ \A i \in 1..Len(p) : p[i] # "/"
         /\ ~ (Len(p) > 0 /\ p[1] = sep /\ DriveAt(ReplaceAll(p, sep, "/"), 2))

\* C10, amended: url2path(path2url(p)) = p for every such path, with either
\* separator; every other path is changed by the round trip.
C10_RoundTrip ==
    cPc = "decoded" => (cBack = cPath <=> RoundTripPath(cSep, cPath))

\* A Windows drive-letter path went through file:///C:/a and came back.
C10_Witness ==
    /\ cPc = "decoded"
    /\ cSep = "\\"
    /\ cPath = <<"C", ":", "\\", "a">>
    /\ cUrl = <<"f","i","l","e",":","/","/","/","C",":","/","a">>
    /\ cBack = cPath


(***************************************************************************)
(* Claims about the steps of build                                         *)
(***************************************************************************)

\* The findPackage calls of Promise.map have all been made and fulfilled.
ExtrasMapped ==
    /\ Len(mapState) = Len(options.mapPackages)
    /\ \A i \in 1..Len(mapState) : mapState[i] = "fulfilled"

\* The bundler has finished: every normalize call it made is fulfilled and
\* the chain of build has gone on.
BundlerDone ==
    /\ phase # "bundling"
    /\ \A f \in 1..Len(frames) : frames[f].pc = "fulfilled"

\* The configuration is written only after the extra resolutions, and only
\* with an outConfigPath.
EmitterLast ==
    /\ config # Undefined => (options.outConfigPath /\ BundlerDone /\ ExtrasMapped)
    /\ (phase = "fulfilled" /\ options.outConfigPath) => config # Undefined

\* C11 as stated: the original normalizer is back on the loader after the
\* bundler has finished and before any extra package is resolved, and the
\* configuration is written only after the extra resolutions and only with
\* an outConfigPath.
C11_RestoreBeforeExtras ==
    /\ (\E i \in 1..Len(mapState) : mapState[i] # "pending") => hook = "old"
    /\ EmitterLast

\* C11, amended: the original normalizer is put back after the bundler has
\* finished and after every extra package has been resolved, before the
\* shim is looked up and the configuration written; the configuration is
\* written only after the extra resolutions and only with an outConfigPath.
C11_RestoreAfterExtras ==
    /\ hook = "old" => (BundlerDone /\ ExtrasMapped /\ phase # "mapping")
    /\ phase = "mapping" => hook = "new"
    /\ phase \in {"shim", "fulfilled"} => hook = "old"
    /\ EmitterLast

C11_Witness ==
    /\ phase = "fulfilled"
    /\ Len(options.mapPackages) > 0
    /\ ExtrasMapped
    /\ hook = "old"
    /\ config # Undefined

\* C12 as stated: whenever the promise of build has settled, fulfilled or
\* rejected, the loader's normalize is the original normalizer.
C12_RestoredOnEveryExit ==
    phase \in {"fulfilled", "rejected"} => hook = "old"

\* C12, amended: the original normalizer is back when the promise of build
\* is fulfilled, and when it is rejected after the extra resolutions (the
\* shim is not found, the configuration cannot be written); a build that
\* the bundler or an extra resolution has made fail leaves the replaced
\* normalize on the loader.
C12_RestoredPastExtras ==
    /\ phase = "fulfilled" => hook = "old"
    /\ ( /\ phase = "rejected"
         /\ \/ \E f \in 1..Len(frames) : frames[f].pc # "fulfilled"
            \/ \E i \in 1..Len(mapState) : mapState[i] = "rejected" )
          => hook = "new"
    /\ (phase = "rejected" /\ hook = "old") =>
          (options.outConfigPath /\ BundlerDone /\ ExtrasMapped)

C12_Witness ==
    /\ phase = "rejected"
    /\ \E i \in 1..Len(mapState) : mapState[i] = "rejected"
    /\ hook = "new"

\* findPackage called for the names one at a time, each call with the
\* answer browser-resolve has for the name.
RECURSIVE MapInOrder(_, _)
MapInOrder(table, names) ==
    IF names = <<>> THEN table
    ELSE LET res == (CHOOSE t \in resolved :
                        /\ t[1] = Head(names)
                        /\ t[2] = RequesterDir(PackageJson))[3]
         IN  MapInOrder(IF res.kind = "error" \/ res.pathName = Head(names)
                        THEN table
                        ELSE RecordPackage(table, Head(names),
                                           PackageSpecOf(Head(names), res)),
                        Tail(names))

\* Promise.map has been called and every one of its findPackage calls is over.
ExtrasSettled ==
    /\ \/ phase \in {"mapping", "shim", "fulfilled"}
       \/ phase = "rejected" /\ Len(mapState) > 0
    /\ Len(mapState) = Len(options.mapPackages)
    /\ \A i \in 1..Len(mapState) : mapState[i] # "pending"

\* C13: in whatever order the concurrent findPackage calls of Promise.map
\* complete, the repository table and the package table derived from it hold
\* the entries they hold when the names are resolved one at a time in list
\* order.
C13_MappingOrderFree ==
    ExtrasSettled =>
        /\ Entries(repoTbl) = Entries(MapInOrder(mapBase, options.mapPackages))
        /\ SeqRange(PackageTblOf(EmptyObject, repoTbl))
              = SeqRange(PackageTblOf(EmptyObject,
                                      MapInOrder(mapBase, options.mapPackages)))

\* Two names have been mapped, and the second of the list was stored first.
C13_Witness ==
    /\ ExtrasSettled
    /\ Len(mapState) = 2
    /\ mapState[1] = "fulfilled" /\ mapState[2] = "fulfilled"
    /\ repoTbl # MapInOrder(mapBase, options.mapPackages)
    /\ Entries(repoTbl) = Entries(MapInOrder(mapBase, options.mapPackages))

\* browser-resolve has answered the name itself for a call from dir: the
\* name is a core module.
AnsweredCore(answers, name, dir) ==
    \E t \in answers : t[1] = name /\ t[2] = dir /\ t[3].pathName = name

\* The step ends a findPackage call of newNormalize on a core module.
CoreEndsInFrame(f) ==
    /\ frames[f].pc = "resolve"
    /\ frames'[f].pc # "resolve"
    /\ AnsweredCore(resolved', frames[f].name, RequesterDir(frames[f].parentName))

\* The step ends a findPackage call of Promise.map on a core module.
CoreEndsInMap(i) ==
    /\ mapState[i] = "pending"
    /\ mapState'[i] # "pending"
    /\ AnsweredCore(resolved', options.mapPackages[i], RequesterDir(PackageJson))

C15_Step ==
    /\ \A f \in 1..Len(frames) :
          CoreEndsInFrame(f) =>
              /\ repoTbl' = repoTbl /\ fixTbl' = fixTbl
              /\ frames'[f].pc = "fulfilled"
              /\ frames'[f].value = frames[f].pathName
    /\ \A i \in 1..Len(mapState) :
          CoreEndsInMap(i) =>
              /\ repoTbl' = repoTbl /\ fixTbl' = fixTbl
              /\ mapState'[i] = "rejected"

\* C15: when browser-resolve answers the bare name that was asked for,
\* findPackage fails and leaves the repository table, and with it the
\* package table, as they were: no PackageSpec for the name, no new key.
C15_InternalNeverRecorded == [][C15_Step]_vars

\* A name of mapPackages was answered as a core module: its call was
\* rejected and no repository holds the name.
C15_Witness ==
    /\ \E i \in 1..Len(mapState) :
          /\ mapState[i] = "rejected"
          /\ AnsweredCore(resolved, options.mapPackages[i], RequesterDir(PackageJson))
          /\ \A e \in Entries(repoTbl) : e[2] # options.mapPackages[i]
    /\ \E i \in 1..Len(mapState) : mapState[i] = "fulfilled"

\* C20: when every call of the original normalizer, every probe of the file
\* system and every package resolution settles, every call of the replaced
\* normalize settles in the end, whatever the alias map, a map with a cycle
\* of names whose paths do not exist included.
C20_InterceptorSettles ==
    \A f \in 1..MaxFrames :
        (f \in Calls) ~> (f \in Calls /\ frames[f].pc \in {"fulfilled", "rejected"})

====
